---- MODULE Spec2Model ----
(***************************************************************************)
(* Model of radosgw_exporter.py: the RADOSGWCollector poll cycle           *)
(* (_scrape_loop / _scrape_metrics), the reader entry point (collect) and  *)
(* the three producers (_get_usage + _update_usage_metrics,                *)
(* _get_bucket_usage, _get_user_quota).                                    *)
(*                                                                         *)
(* Python values are modelled as follows.                                  *)
(*   dict            a TLA+ function/record whose DOMAIN is the key set,   *)
(*                   so that  'k' in d  is  "k" \in DOMAIN d               *)
(*   list            a sequence                                            *)
(*   a value whose Python type the code tests (the result of               *)
(*   _request_data, an element of the bucket list)                         *)
(*                   [type, value]: None, PyDict(d), PyList(s)             *)
(*   insertion-ordered dict that the code iterates (usage_dict)            *)
(*                   a sequence of [key, val] pairs in insertion order     *)
(*   int / int       (Python 3 true division) the exact quotient as a      *)
(*                   fraction in lowest terms, see TrueDiv                 *)
(***************************************************************************)
EXTENDS Integers, Sequences, FiniteSets, TLC

VARIABLES
    pc,            \* position of the scrape thread (or of the unit under test)
    attr_set,      \* TRUE once self._prometheus_metrics has been assigned
    metrics,       \* self._prometheus_metrics: family name -> list of samples
    usage_dict,    \* self.usage_dict
    rgw_usage,     \* local of _scrape_metrics
    rgw_bucket,    \* local of _scrape_metrics
    rgw_users,     \* local of _scrape_metrics
    user_i,        \* position of "for user in rgw_users"
    project_quota, \* local of _get_user_quota
    exc,           \* uncaught exception that ended the thread, or "none"
    active,        \* number of _scrape_metrics invocations in progress
    resp,          \* results of the requests issued so far in this cycle
    prevResp,      \* results of the requests of the previous completed cycle
    prevMetrics,   \* metric set left by the previous completed cycle
    readerView,    \* what the last collect() call obtained
    input,         \* argument of the unit under test (producer specifications)
    step,          \* position in input (producer specifications)
    requests_version  \* the installed requests library: "old" (< 2.27) or "new"

vars == <<pc, attr_set, metrics, usage_dict, rgw_usage, rgw_bucket, rgw_users,
          user_i, project_quota, exc, active, resp, prevResp, prevMetrics,
          readerView, input, step, requests_version>>

(***************************************************************************)
(* Bounds of the model.                                                    *)
(***************************************************************************)
MaxEntries == 1     \* usage entries per usage response in a poll cycle
MaxBuckets == 1     \* bucket records per bucket response in a poll cycle
MaxDuration == 2    \* distinct values of time.time() - start
MergeLen == 3       \* usage entries handed to the Usage Merger
MaxCount == 2       \* largest raw counter value in a usage category
MaxBytes == 5       \* largest quota limit / used size of the Quota Evaluator

(***************************************************************************)
(* Python helpers.                                                         *)
(***************************************************************************)
None == [type |-> "NoneType"]

PyDict(d) == [type |-> "dict", value |-> d]

PyList(s) == [type |-> "list", value |-> s]

\* truth value of a response object: None, {} and [] are false
Truthy(v) == v # None /\ DOMAIN v.value # {}

RECURSIVE Gcd(_, _)
Gcd(a, b) == IF b = 0 THEN a ELSE Gcd(b, a % b)

\* a / b for ints a >= 0, b > 0 under Python 3 (true division): the real
\* quotient as a fraction in lowest terms.  The program holds the double
\* nearest to it; for operands below 2^53 / 100 that double is an integer
\* exactly when the fraction has denominator 1, which covers every operand
\* the specifications draw.  (Python 2 would floor this quotient of two ints;
\* the interpreter modelled is Python 3.)
TrueDiv(a, b) == [num |-> a \div Gcd(a, b), den |-> b \div Gcd(a, b)]

\* str() applied to a value that already is a str
Str(s) == s

\* sequences over S of length at most n
SeqsUpTo(S, n) == UNION {[1..k -> S] : k \in 0..n}

(***************************************************************************)
(* Insertion-ordered dicts (usage_dict and its nested defaultdicts).       *)
(***************************************************************************)
Find(d, k) == IF \E i \in DOMAIN d : d[i].key = k
              THEN CHOOSE i \in DOMAIN d : d[i].key = k
              ELSE 0

HasKey(d, k) == Find(d, k) # 0

DictGet(d, k) == d[Find(d, k)].val

DictSet(d, k, v) == IF HasKey(d, k)
                    THEN [d EXCEPT ![Find(d, k)].val = v]
                    ELSE Append(d, [key |-> k, val |-> v])

(***************************************************************************)
(* _setup_empty_prometheus_metrics                                         *)
(***************************************************************************)
MetricNames == {"ops", "successful_ops", "bytes_sent", "bytes_received",
                "bucket_usage_bytes", "bucket_utilized_bytes",
                "bucket_usage_objects", "scrape_duration_seconds",
                "bucket_quota_bytes", "bucket_quota_max_objects",
                "user_quota_utilized", "user_quota_limit", "user_quota_used"}

SetupEmptyPrometheusMetrics == [n \in MetricNames |-> <<>>]

\* MetricFamily.add_metric(labels, value) on self._prometheus_metrics[name]
AddMetric(m, name, labels, value) ==
    [m EXCEPT ![name] = Append(@, [labels |-> labels, value |-> value])]

(***************************************************************************)
(* _get_usage                                                              *)
(***************************************************************************)
EmptyCounter == [ops |-> 0, successful_ops |-> 0,
                 bytes_sent |-> 0, bytes_received |-> 0]

CounterOverwrite(c, category) ==
    [ops |-> category.ops,
     successful_ops |-> category.successful_ops,
     bytes_sent |-> category.bytes_sent,
     bytes_received |-> category.bytes_received]

\* Counter.update(mapping): adds the counts
CounterUpdate(c, category) ==
    [ops |-> c.ops + category.ops,
     successful_ops |-> c.successful_ops + category.successful_ops,
     bytes_sent |-> c.bytes_sent + category.bytes_sent,
     bytes_received |-> c.bytes_received + category.bytes_received]

BucketName(b) == IF b = "" THEN "bucket_root" ELSE b

BucketOwner(entry) == IF "owner" \in DOMAIN entry THEN entry.owner
                      ELSE entry.user

\* the loop "for category in bucket['categories']" on usage_dict[owner][bucket]
RECURSIVE AddCategories(_, _)
AddCategories(bd, cats) ==
    IF cats = <<>> THEN bd
    ELSE LET category == Head(cats)
             category_name == category.category
             bd1 == IF ~HasKey(bd, category_name)
                    THEN DictSet(bd, category_name, EmptyCounter)
                    ELSE bd
             c == DictGet(bd1, category_name)
         IN  AddCategories(DictSet(bd1, category_name,
                                   CounterUpdate(c, category)),
                           Tail(cats))

\* the loop "for bucket in entry['buckets']" on usage_dict[owner]
RECURSIVE AddBuckets(_, _)
AddBuckets(od, buckets) ==
    IF buckets = <<>> THEN od
    ELSE LET bucket == Head(buckets)
             bucket_name == BucketName(bucket.bucket)
             od1 == IF ~HasKey(od, bucket_name)
                    THEN DictSet(od, bucket_name, <<>>)
                    ELSE od
         IN  AddBuckets(DictSet(od1, bucket_name,
                                AddCategories(DictGet(od1, bucket_name),
                                              bucket.categories)),
                        Tail(buckets))

GetUsage(d, entry) ==
    LET bucket_owner == BucketOwner(entry)
        d1 == IF ~HasKey(d, bucket_owner)
              THEN DictSet(d, bucket_owner, <<>>)
              ELSE d
    IN  DictSet(d1, bucket_owner,
                AddBuckets(DictGet(d1, bucket_owner), entry.buckets))

RECURSIVE GetUsageAll(_, _)
GetUsageAll(d, entries) ==
    IF entries = <<>> THEN d
    ELSE GetUsageAll(GetUsage(d, Head(entries)), Tail(entries))

(***************************************************************************)
(* _update_usage_metrics                                                   *)
(***************************************************************************)
AddUsageSamples(m, bucket_name, bucket_owner, category, data_dict) ==
    LET labels == <<bucket_name, bucket_owner, category>>
        m1 == AddMetric(m, "ops", labels, data_dict.ops)
        m2 == AddMetric(m1, "successful_ops", labels, data_dict.successful_ops)
        m3 == AddMetric(m2, "bytes_sent", labels, data_dict.bytes_sent)
    IN  AddMetric(m3, "bytes_received", labels, data_dict.bytes_received)

RECURSIVE UpdateCategories(_, _, _, _)
UpdateCategories(m, bucket_owner, bucket_name, bd) ==
    IF bd = <<>> THEN m
    ELSE UpdateCategories(AddUsageSamples(m, bucket_name, bucket_owner,
                                          Head(bd).key, Head(bd).val),
                          bucket_owner, bucket_name, Tail(bd))

RECURSIVE UpdateBuckets(_, _, _)
UpdateBuckets(m, bucket_owner, od) ==
    IF od = <<>> THEN m
    ELSE UpdateBuckets(UpdateCategories(m, bucket_owner,
                                        Head(od).key, Head(od).val),
                       bucket_owner, Tail(od))

RECURSIVE UpdateUsageMetrics(_, _)
UpdateUsageMetrics(m, d) ==
    IF d = <<>> THEN m
    ELSE UpdateUsageMetrics(UpdateBuckets(m, Head(d).key, Head(d).val),
                            Tail(d))

(***************************************************************************)
(* _get_bucket_usage                                                       *)
(* An element of the bucket response is [type, value]: type is the Python  *)
(* type of the element, value its content.  The result is the metric set   *)
(* after the call and the exception the call raised, if any.               *)
(***************************************************************************)
AddBucketSamples(m, labels, usage, utilized, objects, quota, quota_objects) ==
    LET m1 == AddMetric(m, "bucket_usage_bytes", labels, usage)
        m2 == AddMetric(m1, "bucket_utilized_bytes", labels, utilized)
        m3 == AddMetric(m2, "bucket_usage_objects", labels, objects)
        m4 == AddMetric(m3, "bucket_quota_bytes", labels, quota)
    IN  AddMetric(m4, "bucket_quota_max_objects", labels, quota_objects)

GetBucketUsage(m, bucket) ==
    IF bucket.type # "dict" THEN [m |-> m, exc |-> "none"]
    ELSE LET b == bucket.value IN
      IF \/ "bucket" \notin DOMAIN b
         \/ "owner" \notin DOMAIN b
         \/ "usage" \notin DOMAIN b
      THEN [m |-> m, exc |-> "KeyError"]
      ELSE IF DOMAIN b.usage # {} /\ "rgw.main" \notin DOMAIN b.usage
      THEN [m |-> m, exc |-> "KeyError"]
      ELSE
        LET main == IF DOMAIN b.usage # {} THEN b.usage["rgw.main"] ELSE <<>>
            bucket_usage_bytes ==
                IF "size_actual" \in DOMAIN main THEN main.size_actual
                ELSE IF "size_kb_actual" \in DOMAIN main
                     THEN main.size_kb_actual * 1024
                     ELSE 0
            bucket_utilized_bytes ==
                IF "size_utilized" \in DOMAIN main THEN main.size_utilized
                ELSE 0
            bucket_usage_objects ==
                IF "num_objects" \in DOMAIN main THEN main.num_objects ELSE 0
            bucket_zonegroup ==
                IF "zonegroup" \in DOMAIN b THEN b.zonegroup ELSE "0"
            quota == IF "bucket_quota" \in DOMAIN b THEN b.bucket_quota
                     ELSE <<>>
            bucket_quota_bytes ==
                IF "max_size" \in DOMAIN quota THEN quota.max_size ELSE 0
            bucket_quota_max_objects ==
                IF "max_objects" \in DOMAIN quota THEN quota.max_objects ELSE 0
        IN  [m |-> AddBucketSamples(m, <<b.bucket, b.owner, bucket_zonegroup>>,
                                    bucket_usage_bytes, bucket_utilized_bytes,
                                    bucket_usage_objects, bucket_quota_bytes,
                                    bucket_quota_max_objects),
             exc |-> "none"]

\* the loop "for bucket in rgw_bucket": stops at the first exception
RECURSIVE GetBucketUsageAll(_, _)
GetBucketUsageAll(m, buckets) ==
    IF buckets = <<>> THEN [m |-> m, exc |-> "none"]
    ELSE LET r == GetBucketUsage(m, Head(buckets))
         IN  IF r.exc # "none" THEN r
             ELSE GetBucketUsageAll(r.m, Tail(buckets))

(***************************************************************************)
(* _get_quota_by_project, _get_user_quota                                  *)
(***************************************************************************)
\* return quota['max_size'] where quota is the result of _request_data
GetQuotaByProject(quota) ==
    IF quota = None THEN [exc |-> "TypeError", val |-> 0]
    ELSE [exc |-> "none", val |-> quota.value.max_size]

\* the body of "if user is not None" in _get_user_quota
UserQuotaMetrics(m, quota, user) ==
    LET project_name == user.value.display_name
        project_id == user.value.user_id
        used_size == user.value.stats.size_actual
        used_size_percent == TrueDiv(used_size * 100, quota)
        labels == <<Str(project_name), Str(project_id)>>
        m1 == AddMetric(m, "user_quota_utilized", labels, used_size_percent)
        m2 == AddMetric(m1, "user_quota_limit", labels, quota)
    IN  AddMetric(m2, "user_quota_used", labels, used_size)

(***************************************************************************)
(* _request_data.  The outcome of requests.get is                          *)
(*   [status "ok", json]         a 200 response whose body is JSON         *)
(*   [status "ok", json_error]   a 200 response whose body is not JSON:    *)
(*                               response.json() raises json_error         *)
(*   [status "rejected", utf8]   a response with another status code, its  *)
(*                               body being valid UTF-8 or not             *)
(*   [status "exception"]        requests.get raises a RequestException    *)
(* The result is the value returned and the exception that leaves          *)
(* _request_data, if any.                                                  *)
(***************************************************************************)
\* what response.json() raises on a body that is not JSON: requests 2.27 and
\* later raise requests.exceptions.JSONDecodeError, a RequestException;
\* earlier versions raise a plain ValueError
JsonError == IF requests_version = "new" THEN "RequestException"
             ELSE "ValueError"

Outcomes(bodies) ==
    {[status |-> "ok", json |-> b] : b \in bodies}
    \cup {[status |-> "ok", json_error |-> JsonError],
          [status |-> "rejected", utf8 |-> TRUE],
          [status |-> "rejected", utf8 |-> FALSE],
          [status |-> "exception"]}

RequestData(outcome) ==
    IF outcome.status = "ok"
    THEN IF "json" \in DOMAIN outcome
         THEN [exc |-> "none", val |-> outcome.json]
         ELSE IF outcome.json_error = "RequestException"
         THEN [exc |-> "none", val |-> None]
         ELSE [exc |-> outcome.json_error, val |-> None]
    ELSE IF outcome.status = "rejected" /\ ~outcome.utf8
    THEN [exc |-> "UnicodeDecodeError", val |-> None]
    ELSE [exc |-> "none", val |-> None]

\* what the record of requests keeps of a call that raised
Raised(e) == [type |-> "raised", exc |-> e]

\* what the record of requests keeps of a call
Logged(r) == IF r.exc = "none" THEN r.val ELSE Raised(r.exc)

\* one entry of the record of the requests of a cycle
Request(query, args, uid, result) ==
    [query |-> query, args |-> args, uid |-> uid, result |-> result]

(***************************************************************************)
(* Responses the gateway gives during a poll cycle.                        *)
(***************************************************************************)
UsageCategory(name, v) ==
    [category |-> name, ops |-> v, successful_ops |-> v - 1,
     bytes_sent |-> 100 * v, bytes_received |-> 10 * v]

UsageBucket(name, cats) == [bucket |-> name, categories |-> cats]

CycleEntries ==
    {[user |-> "o1",
      buckets |-> <<UsageBucket("", <<UsageCategory("get", 1),
                                      UsageCategory("put", 2)>>)>>]}

UsageBodies ==
    {PyDict([entries |-> s]) :
        s \in SeqsUpTo(CycleEntries, MaxEntries) \ {<<>>}}

CycleBuckets ==
    {PyDict([bucket |-> "b1", owner |-> "o1", zonegroup |-> "zg1",
             usage |-> ("rgw.main" :> [size_actual |-> 500,
                                       size_utilized |-> 300,
                                       num_objects |-> 7]),
             bucket_quota |-> [max_size |-> 2000, max_objects |-> 50]]),
     PyDict([bucket |-> "b2", owner |-> "o1",
             usage |-> ("rgw.multimeta" :> [size_actual |-> 0])])}

\* an element of the bucket list that is not a dict ("Hammer junk")
JunkElement == PyList(<<>>)

\* a junk element followed by up to MaxBuckets bucket records
BucketBodies ==
    {PyList(<<JunkElement>> \o s) :
        s \in SeqsUpTo(CycleBuckets, MaxBuckets) \ {<<>>}}

UserIdBodies == {PyList(<<"u1", "u2">>)}

QuotaBodies == {PyDict([max_size |-> 0]), PyDict([max_size |-> 1000])}

UserInfo(uid, used) ==
    PyDict([user_id |-> uid, display_name |-> uid,
            stats |-> [size_actual |-> used]])

(***************************************************************************)
(* The scrape thread: _scrape_loop and _scrape_metrics.                    *)
(***************************************************************************)
NoMetrics == [n \in MetricNames |-> <<>>]

CanStartCycleAnytime == pc \in {"loop", "req_bucket"}

\* "while True: self._scrape_metrics()": the call is made from the loop head
CanStartCycle == pc = "loop"

KeepUsageDict == usage_dict

\* self.usage_dict = defaultdict(dict)
NewUsageDict == <<>>

PopulateUsageCond == Truthy(rgw_usage)

PopulateBucketsCond == Truthy(rgw_bucket)

PopulateUsersCond == Truthy(rgw_users)

\* the list a reader holds keeps referring to the families of the dict it was
\* taken from; the model follows it for one more cycle (older lists hold the
\* families of completed cycles)
ShiftView(v) == IF v = "cur" THEN "prev"
                ELSE IF v = "prev" THEN "none"
                ELSE v

ScrapeStart ==
    /\ CanStartCycle
    /\ exc = "none"
    /\ attr_set' = TRUE
    /\ metrics' = SetupEmptyPrometheusMetrics
    /\ usage_dict' = NewUsageDict
    /\ resp' = <<>>
    /\ prevResp' = IF attr_set THEN resp ELSE prevResp
    /\ prevMetrics' = IF attr_set THEN metrics ELSE prevMetrics
    /\ readerView' = ShiftView(readerView)
    /\ active' = active + 1
    /\ pc' = "req_usage"
    /\ UNCHANGED <<rgw_usage, rgw_bucket, rgw_users, user_i, project_quota,
                   exc, input, step,
                   requests_version>>

\* the thread ends with an uncaught exception raised inside _scrape_metrics
Raise(e) ==
    /\ pc' = "crashed"
    /\ exc' = e
    /\ active' = active - 1

RequestUsage ==
    /\ pc = "req_usage"
    /\ \E o \in Outcomes(UsageBodies) :
          LET r == RequestData(o) IN
          /\ resp' = Append(resp, Request("usage", "show-summary=False", "", Logged(r)))
          /\ IF r.exc # "none"
             THEN Raise(r.exc) /\ UNCHANGED rgw_usage
             ELSE /\ rgw_usage' = r.val
                  /\ pc' = "req_bucket"
                  /\ UNCHANGED <<exc, active>>
    /\ UNCHANGED <<attr_set, metrics, usage_dict, rgw_bucket, rgw_users,
                   user_i, project_quota, prevResp, prevMetrics,
                   readerView, input, step, requests_version>>

RequestBucket ==
    /\ pc = "req_bucket"
    /\ \E o \in Outcomes(BucketBodies) :
          LET r == RequestData(o) IN
          /\ resp' = Append(resp, Request("bucket", "stats=True", "", Logged(r)))
          /\ IF r.exc # "none"
             THEN Raise(r.exc) /\ UNCHANGED rgw_bucket
             ELSE /\ rgw_bucket' = r.val
                  /\ pc' = "req_users"
                  /\ UNCHANGED <<exc, active>>
    /\ UNCHANGED <<attr_set, metrics, usage_dict, rgw_usage, rgw_users,
                   user_i, project_quota, prevResp, prevMetrics,
                   readerView, input, step, requests_version>>

\* rgw_users = self._get_users_ids()
RequestUsers ==
    /\ pc = "req_users"
    /\ \E o \in Outcomes(UserIdBodies) :
          LET r == RequestData(o) IN
          /\ resp' = Append(resp, Request("metadata/user", "", "", Logged(r)))
          /\ IF r.exc # "none"
             THEN Raise(r.exc) /\ UNCHANGED rgw_users
             ELSE /\ rgw_users' = r.val
                  /\ pc' = "pop_usage"
                  /\ UNCHANGED <<exc, active>>
    /\ UNCHANGED <<attr_set, metrics, usage_dict, rgw_usage, rgw_bucket,
                   user_i, project_quota, prevResp, prevMetrics,
                   readerView, input, step, requests_version>>

\* if rgw_usage: _get_usage for each entry, then _update_usage_metrics
PopulateUsage ==
    /\ pc = "pop_usage"
    /\ IF PopulateUsageCond
       THEN /\ usage_dict' = GetUsageAll(usage_dict, rgw_usage.value.entries)
            /\ metrics' = UpdateUsageMetrics(metrics, usage_dict')
       ELSE UNCHANGED <<usage_dict, metrics>>
    /\ pc' = "pop_bucket"
    /\ UNCHANGED <<attr_set, rgw_usage, rgw_bucket, rgw_users, user_i,
                   project_quota, exc, active, resp, prevResp, prevMetrics,
                   readerView, input, step,
                   requests_version>>

\* if rgw_bucket: _get_bucket_usage for each bucket
PopulateBuckets ==
    /\ pc = "pop_bucket"
    /\ LET r == IF PopulateBucketsCond
                THEN GetBucketUsageAll(metrics, rgw_bucket.value)
                ELSE [m |-> metrics, exc |-> "none"]
       IN  /\ metrics' = r.m
           /\ IF r.exc # "none"
              THEN Raise(r.exc) /\ UNCHANGED user_i
              ELSE pc' = "users" /\ user_i' = 1 /\ UNCHANGED <<exc, active>>
    /\ UNCHANGED <<attr_set, usage_dict, rgw_usage, rgw_bucket, rgw_users,
                   project_quota, resp, prevResp, prevMetrics,
                   readerView, input, step,
                   requests_version>>

\* _get_user_quota(user) up to the test "project_quota > 0"
UserQuotaRequest ==
    /\ pc = "users"
    /\ PopulateUsersCond
    /\ user_i <= Len(rgw_users.value)
    /\ \E o \in Outcomes(QuotaBodies) :
          LET r == RequestData(o)
              q == IF r.exc # "none" THEN [exc |-> r.exc, val |-> 0]
                   ELSE GetQuotaByProject(r.val)
          IN
          /\ resp' = Append(resp, Request("user", "quota",
                                          rgw_users.value[user_i], Logged(r)))
          /\ IF q.exc # "none"
             THEN Raise(q.exc) /\ UNCHANGED <<user_i, project_quota>>
             ELSE IF q.val > 0
             THEN /\ pc' = "user_info"
                  /\ project_quota' = q.val
                  /\ UNCHANGED <<user_i, exc, active>>
             ELSE /\ pc' = "users"
                  /\ user_i' = user_i + 1
                  /\ UNCHANGED <<project_quota, exc, active>>
    /\ UNCHANGED <<attr_set, metrics, usage_dict, rgw_usage, rgw_bucket,
                   rgw_users, prevResp, prevMetrics, readerView, input, step,
                   requests_version>>

\* _get_user_quota(user) from "user = self._get_user_info(project)" on
UserInfoRequest ==
    /\ pc = "user_info"
    /\ \E o \in Outcomes({UserInfo(rgw_users.value[user_i], 250)}) :
          LET r == RequestData(o)
              user == r.val
          IN
          /\ resp' = Append(resp, Request("user", "stats=True",
                                          rgw_users.value[user_i], Logged(r)))
          /\ IF r.exc # "none"
             THEN /\ Raise(r.exc)
                  /\ UNCHANGED <<metrics, user_i, project_quota>>
             ELSE /\ metrics' = IF user # None
                                THEN UserQuotaMetrics(metrics, project_quota,
                                                      user)
                                ELSE metrics
                  /\ pc' = "users"
                  /\ user_i' = user_i + 1
                  /\ project_quota' = 0
                  /\ UNCHANGED <<exc, active>>
    /\ UNCHANGED <<attr_set, usage_dict, rgw_usage, rgw_bucket, rgw_users,
                   prevResp, prevMetrics, readerView, input, step,
                   requests_version>>

\* duration = time.time() - start; add it to scrape_duration_seconds; return
ScrapeEnd ==
    /\ pc = "users"
    /\ IF PopulateUsersCond THEN user_i > Len(rgw_users.value) ELSE TRUE
    /\ \E duration \in 1..MaxDuration :
          metrics' = AddMetric(metrics, "scrape_duration_seconds", <<>>,
                               duration)
    /\ pc' = "sleep"
    /\ active' = active - 1
    /\ rgw_usage' = None
    /\ rgw_bucket' = None
    /\ rgw_users' = None
    /\ user_i' = 0
    /\ UNCHANGED <<attr_set, usage_dict, project_quota, exc, resp, prevResp,
                   prevMetrics, readerView, input, step,
                   requests_version>>

\* time.sleep(self.interval)
Sleep ==
    /\ pc = "sleep"
    /\ pc' = "loop"
    /\ UNCHANGED <<attr_set, metrics, usage_dict, rgw_usage, rgw_bucket,
                   rgw_users, user_i, project_quota, exc, active, resp,
                   prevResp, prevMetrics, readerView, input, step,
                   requests_version>>

(***************************************************************************)
(* collect: list(self._prometheus_metrics.values()).  The attribute lookup *)
(* raises AttributeError while the attribute does not exist; main() does   *)
(* not catch it, so the caller (the registration in main) makes no further *)
(* call.  Otherwise the reader holds the families of the current dict.     *)
(***************************************************************************)
Collect ==
    /\ readerView # "AttributeError"
    /\ readerView' = IF attr_set THEN "cur" ELSE "AttributeError"
    /\ UNCHANGED <<pc, attr_set, metrics, usage_dict, rgw_usage, rgw_bucket,
                   rgw_users, user_i, project_quota, exc, active, resp,
                   prevResp, prevMetrics, input, step,
                   requests_version>>

\* the metric set behind the list the reader holds
ReaderMetrics == IF readerView = "prev" THEN prevMetrics ELSE metrics

Worker == \/ ScrapeStart
          \/ RequestUsage
          \/ RequestBucket
          \/ RequestUsers
          \/ PopulateUsage
          \/ PopulateBuckets
          \/ UserQuotaRequest
          \/ UserInfoRequest
          \/ ScrapeEnd
          \/ Sleep

\* the state when RADOSGWCollector.__init__ returns: the thread is started
Init ==
    /\ pc = "loop"
    /\ attr_set = FALSE
    /\ metrics = NoMetrics
    /\ usage_dict = <<>>
    /\ rgw_usage = None
    /\ rgw_bucket = None
    /\ rgw_users = None
    /\ user_i = 0
    /\ project_quota = 0
    /\ exc = "none"
    /\ active = 0
    /\ resp = <<>>
    /\ prevResp = <<>>
    /\ prevMetrics = NoMetrics
    /\ readerView = "none"
    /\ requests_version \in {"old", "new"}
    /\ input = None
    /\ step = 0

Next == Worker \/ Collect

Spec == Init /\ [][Next]_vars

\* the thread is scheduled and every request and sleep returns
FairSpec == Spec /\ WF_vars(Worker)

(***************************************************************************)
(* Properties of the poll cycle and of the readers (Spec, FairSpec).       *)
(***************************************************************************)
UsageFamilies == {"ops", "successful_ops", "bytes_sent", "bytes_received"}

BucketFamilies == {"bucket_usage_bytes", "bucket_utilized_bytes",
                   "bucket_usage_objects", "bucket_quota_bytes",
                   "bucket_quota_max_objects"}

QuotaFamilies == {"user_quota_utilized", "user_quota_limit",
                  "user_quota_used"}

\* a metric set is fully assembled once scrape_duration has been recorded
FullyAssembled(m) == Len(m["scrape_duration_seconds"]) = 1

Building == {"req_usage", "req_bucket", "req_users", "pop_usage",
             "pop_bucket", "users", "user_info"}

\* the result of the request (query, args, uid) in the record of a cycle
Result(log, query, args, uid) ==
    log[CHOOSE i \in DOMAIN log : /\ log[i].query = query
                                  /\ log[i].args = args
                                  /\ log[i].uid = uid].result

\* C1: whenever a reader holds a metric set, that set is the fully assembled
\* result of a completed cycle (scrape_duration recorded), never the empty or
\* partly filled set of a cycle that is still building.
C1_ReadersSeeCompleteSets ==
    readerView \in {"cur", "prev"} => FullyAssembled(ReaderMetrics)

\* the exceptions only a failed request raises: UnicodeDecodeError and
\* ValueError leave _request_data itself, TypeError comes from indexing the
\* absent result of a failed request
RequestFailureErrors == {"TypeError", "UnicodeDecodeError", "ValueError"}

\* C2: a failed admin-API request never ends _scrape_metrics with an uncaught
\* exception.
C2_NoRequestFailureAborts == ~(pc = "crashed" /\ exc \in RequestFailureErrors)

\* C3: under fair scheduling the scrape loop starts a poll cycle again and
\* again, whatever requests failed.
C3_AlwaysAnotherCycle == []<>(pc = "req_usage")

Phase(p) == IF p = "loop" THEN "Idle"
            ELSE IF p = "sleep" THEN "Published"
            ELSE IF p = "crashed" THEN "Dead"
            ELSE "Building"

PhaseOrder ==
    Phase(pc') # Phase(pc) =>
        <<Phase(pc), Phase(pc')>> \in {<<"Idle", "Building">>,
                                       <<"Building", "Published">>,
                                       <<"Published", "Idle">>,
                                       <<"Building", "Dead">>}

\* C4: at most one _scrape_metrics invocation is in progress at any time, and
\* the scheduler moves Idle -> Building -> Published -> Idle: a cycle starts
\* only from Idle, which is entered only after the previous cycle published
\* (a thread that dies while building starts no cycle at all).
C4_OneCycleAtATime ==
    /\ [](active <= 1 /\ (active = 1 <=> pc \in Building))
    /\ [][PhaseOrder]_vars

C4_Witness == pc = "req_bucket" /\ prevResp # <<>> /\ active = 1

\* a request brought back data: neither None nor an exception
Succeeded(result) == result.type \in {"dict", "list"}

UsageFailedOthersSucceeded ==
    /\ \E i \in DOMAIN resp :
          resp[i].query = "usage" /\ ~Succeeded(resp[i].result)
    /\ \A i \in DOMAIN resp :
          resp[i].query # "usage" => Succeeded(resp[i].result)

ReturnedBuckets ==
    SelectSeq(Result(resp, "bucket", "stats=True", "").value,
              LAMBDA b : b.type = "dict")

UsersWithQuota ==
    SelectSeq(Result(resp, "metadata/user", "", "").value,
              LAMBDA u : Result(resp, "user", "quota", u).value.max_size > 0)

\* C5: a cycle whose usage request failed while no other request failed
\* completes, and leaves no usage sample, one bucket record per returned
\* bucket and one quota record per user with a positive limit.
C5_UsageFailureIsIndependent ==
    (pc \in {"sleep", "crashed"} /\ UsageFailedOthersSucceeded) =>
        /\ pc = "sleep"
        /\ \A n \in UsageFamilies : metrics[n] = <<>>
        /\ \A n \in BucketFamilies :
              /\ Len(metrics[n]) = Len(ReturnedBuckets)
              /\ \A i \in DOMAIN metrics[n] :
                    /\ metrics[n][i].labels[1] = ReturnedBuckets[i].value.bucket
                    /\ metrics[n][i].labels[2] = ReturnedBuckets[i].value.owner
        /\ \A n \in QuotaFamilies :
              /\ Len(metrics[n]) = Len(UsersWithQuota)
              /\ \A i \in DOMAIN metrics[n] :
                    metrics[n][i].labels[2] = UsersWithQuota[i]
        /\ FullyAssembled(metrics)

\* C9: a completed cycle that received the same responses as the cycle
\* completed before it leaves the same samples in every family except
\* scrape_duration_seconds.
C9_SameResponsesSameSnapshot ==
    (pc = "sleep" /\ prevResp # <<>> /\ resp = prevResp) =>
        \A n \in MetricNames \ {"scrape_duration_seconds"} :
            metrics[n] = prevMetrics[n]

C9_Witness ==
    /\ pc = "sleep"
    /\ prevResp # <<>>
    /\ resp = prevResp
    /\ metrics["ops"] # <<>>
    /\ metrics["bucket_usage_bytes"] # <<>>
    /\ metrics["user_quota_used"] # <<>>
    /\ metrics["scrape_duration_seconds"]
          # prevMetrics["scrape_duration_seconds"]

\* C10: no call of collect finds the collector without a metric set.
C10_CollectFindsMetricSet == readerView # "AttributeError"

(***************************************************************************)
(* The Usage Merger on its own: _get_usage applied to each raw entry of    *)
(* input, then _update_usage_metrics.                                      *)
(***************************************************************************)
MergeEntries ==
    UNION {
      {[owner |-> "o1",
        buckets |-> <<UsageBucket("", <<UsageCategory("get", v)>>)>>],
       [user |-> "o1",
        buckets |-> <<UsageBucket("bucket_root",
                                  <<UsageCategory("get", v)>>)>>],
       [owner |-> "o2",
        buckets |-> <<UsageBucket("b1", <<UsageCategory("get", v),
                                          UsageCategory("put", v)>>),
                      UsageBucket("", <<UsageCategory("put", v)>>)>>],
       [owner |-> "o1", user |-> "o2",
        buckets |-> <<UsageBucket("b1", <<UsageCategory("put", v),
                                          UsageCategory("put", v)>>)>>]}
      : v \in 1..MaxCount}

InitMerge ==
    /\ pc = "merge"
    /\ input \in SeqsUpTo(MergeEntries, MergeLen)
    /\ step = 1
    /\ attr_set = TRUE
    /\ metrics = NoMetrics
    /\ usage_dict = <<>>
    /\ rgw_usage = None
    /\ rgw_bucket = None
    /\ rgw_users = None
    /\ user_i = 0
    /\ project_quota = 0
    /\ exc = "none"
    /\ active = 0
    /\ resp = <<>>
    /\ prevResp = <<>>
    /\ prevMetrics = NoMetrics
    /\ readerView = "none"
    /\ requests_version \in {"old", "new"}

\* for entry in rgw_usage['entries']: self._get_usage(entry)
MergeEntry ==
    /\ pc = "merge"
    /\ step <= Len(input)
    /\ usage_dict' = GetUsage(usage_dict, input[step])
    /\ step' = step + 1
    /\ UNCHANGED <<pc, attr_set, metrics, rgw_usage, rgw_bucket, rgw_users,
                   user_i, project_quota, exc, active, resp, prevResp,
                   prevMetrics, readerView, input,
                   requests_version>>

\* self._update_usage_metrics()
MergeEmit ==
    /\ pc = "merge"
    /\ step > Len(input)
    /\ metrics' = UpdateUsageMetrics(metrics, usage_dict)
    /\ pc' = "merged"
    /\ UNCHANGED <<attr_set, usage_dict, rgw_usage, rgw_bucket, rgw_users,
                   user_i, project_quota, exc, active, resp, prevResp,
                   prevMetrics, readerView, input, step,
                   requests_version>>

NextMerge == MergeEntry \/ MergeEmit

SpecMerge == InitMerge /\ [][NextMerge]_vars

\* positions <<entry, bucket, category>> of the raw category tuples of es
RawTuples(es) ==
    UNION {UNION {{<<i, j, k>> : k \in DOMAIN es[i].buckets[j].categories}
                  : j \in DOMAIN es[i].buckets}
           : i \in DOMAIN es}

RawCategory(es, x) == es[x[1]].buckets[x[2]].categories[x[3]]

\* the (bucket, owner, category) key of a raw category tuple
RawKey(es, x) ==
    <<IF es[x[1]].buckets[x[2]].bucket = "" THEN "bucket_root"
      ELSE es[x[1]].buckets[x[2]].bucket,
      IF "owner" \in DOMAIN es[x[1]] THEN es[x[1]].owner ELSE es[x[1]].user,
      RawCategory(es, x).category>>

RECURSIVE RawSum(_, _, _)
RawSum(es, S, n) ==
    IF S = {} THEN 0
    ELSE LET x == CHOOSE y \in S : TRUE
         IN  RawCategory(es, x)[n] + RawSum(es, S \ {x}, n)

\* key -> the four counters, read off the samples of a metric set
Totals(m) ==
    [l \in {m["ops"][i].labels : i \in DOMAIN m["ops"]} |->
        [n \in UsageFamilies |->
            m[n][CHOOSE i \in DOMAIN m[n] : m[n][i].labels = l].value]]

\* what the Usage Merger emits for the entries es
Merged(es) == Totals(UpdateUsageMetrics(NoMetrics, GetUsageAll(<<>>, es)))

SumTotals(a, b) ==
    [l \in DOMAIN a \cup DOMAIN b |->
        [n \in UsageFamilies |->
            (IF l \in DOMAIN a THEN a[l][n] ELSE 0)
            + (IF l \in DOMAIN b THEN b[l][n] ELSE 0)]]

\* C6: the merger emits exactly one record per distinct (bucket, owner,
\* category) key of the raw tuples ("" read as "bucket_root"), each counter
\* being the sum of that counter over the raw tuples with the key; and the
\* result equals the key-wise sum of the results of merging any two bins the
\* entries are split into.
C6_MergeSumsPerKey ==
    pc = "merged" =>
        LET keys == {RawKey(input, x) : x \in RawTuples(input)} IN
        /\ \A n \in UsageFamilies :
              /\ Len(metrics[n]) = Cardinality(keys)
              /\ {metrics[n][i].labels : i \in DOMAIN metrics[n]} = keys
              /\ \A i \in DOMAIN metrics[n] :
                    metrics[n][i].value =
                        RawSum(input,
                               {x \in RawTuples(input) :
                                   RawKey(input, x) = metrics[n][i].labels},
                               n)
        /\ \A k \in 0..Len(input) :
              Totals(metrics) =
                  SumTotals(Merged(SubSeq(input, 1, k)),
                            Merged(SubSeq(input, k + 1, Len(input))))

\* one key fed by two different entries, one of them naming the bucket ""
C6_Witness ==
    /\ pc = "merged"
    /\ \E x, y \in RawTuples(input) :
          /\ x[1] # y[1]
          /\ RawKey(input, x) = RawKey(input, y)
          /\ input[x[1]].buckets[x[2]].bucket = ""
          /\ input[y[1]].buckets[y[2]].bucket = "bucket_root"
          /\ "user" \in DOMAIN input[y[1]]

(***************************************************************************)
(* The Bucket Stat Normalizer on its own: _get_bucket_usage(input).        *)
(***************************************************************************)
Restrict(f, S) == [k \in S |-> f[k]]

MainSections ==
    {Restrict([size_actual |-> 500, size_kb_actual |-> 100,
               size_utilized |-> 300, num_objects |-> 7], S)
     : S \in SUBSET {"size_actual", "size_kb_actual", "size_utilized",
                     "num_objects"}}

UsageSections == {<<>>, "rgw.multimeta" :> [size_actual |-> 0]}
                 \cup {"rgw.main" :> m : m \in MainSections}

QuotaSections ==
    {Restrict([max_size |-> 2000, max_objects |-> 50], S)
     : S \in SUBSET {"max_size", "max_objects"}}

BucketRecords ==
    {PyDict([bucket |-> "b1", owner |-> "o1"] @@ u @@ z @@ q)
     : u \in {<<>>} \cup {[usage |-> x] : x \in UsageSections},
       z \in {<<>>, [zonegroup |-> "zg1"]},
       q \in {<<>>} \cup {[bucket_quota |-> x] : x \in QuotaSections}}

InitBucket ==
    /\ pc = "bucket"
    /\ input \in BucketRecords \cup {JunkElement}
    /\ step = 0
    /\ attr_set = TRUE
    /\ metrics = NoMetrics
    /\ usage_dict = <<>>
    /\ rgw_usage = None
    /\ rgw_bucket = None
    /\ rgw_users = None
    /\ user_i = 0
    /\ project_quota = 0
    /\ exc = "none"
    /\ active = 0
    /\ resp = <<>>
    /\ prevResp = <<>>
    /\ prevMetrics = NoMetrics
    /\ readerView = "none"
    /\ requests_version \in {"old", "new"}

\* self._get_bucket_usage(bucket)
NormalizeBucket ==
    /\ pc = "bucket"
    /\ LET r == GetBucketUsage(metrics, input)
       IN  metrics' = r.m /\ exc' = r.exc
    /\ pc' = "bucket_done"
    /\ UNCHANGED <<attr_set, usage_dict, rgw_usage, rgw_bucket, rgw_users,
                   user_i, project_quota, active, resp, prevResp,
                   prevMetrics, readerView, input, step,
                   requests_version>>

NextBucket == NormalizeBucket

SpecBucket == InitBucket /\ [][NextBucket]_vars

OrZero(d, k) == IF k \in DOMAIN d THEN d[k] ELSE 0

\* the main-pool section of a bucket record, empty when it is absent
MainOf(b) == IF "usage" \in DOMAIN b /\ "rgw.main" \in DOMAIN b.usage
             THEN b.usage["rgw.main"]
             ELSE <<>>

QuotaOf(b) == IF "bucket_quota" \in DOMAIN b THEN b.bucket_quota ELSE <<>>

\* the BucketUsage the field resolution order prescribes for a record
BucketUsageOf(b) ==
    [labels |-> <<b.bucket, b.owner,
                  IF "zonegroup" \in DOMAIN b THEN b.zonegroup ELSE "0">>,
     bucket_usage_bytes |->
        IF "size_actual" \in DOMAIN MainOf(b) THEN MainOf(b).size_actual
        ELSE OrZero(MainOf(b), "size_kb_actual") * 1024,
     bucket_utilized_bytes |-> OrZero(MainOf(b), "size_utilized"),
     bucket_usage_objects |-> OrZero(MainOf(b), "num_objects"),
     bucket_quota_bytes |-> OrZero(QuotaOf(b), "max_size"),
     bucket_quota_max_objects |-> OrZero(QuotaOf(b), "max_objects")]

NormalizedAsPrescribed ==
    /\ exc = "none"
    /\ \A n \in BucketFamilies :
          metrics[n] = <<[labels |-> BucketUsageOf(input.value).labels,
                          value |-> BucketUsageOf(input.value)[n]]>>

\* C7: every structured bucket record, whatever fields it omits, yields
\* exactly one BucketUsage with the prescribed values and raises no error.
C7_EveryRecordNormalized ==
    (pc = "bucket_done" /\ input.type = "dict") => NormalizedAsPrescribed

(***************************************************************************)
(* The Quota Evaluator on its own: _get_user_quota for one user whose two  *)
(* requests return input.quota and input.info.                             *)
(***************************************************************************)
InitQuota ==
    /\ pc = "quota"
    /\ requests_version \in {"old", "new"}
    /\ input \in [quota : Outcomes({PyDict([max_size |-> l]) :
                                       l \in -1..MaxBytes}),
                  info : Outcomes({UserInfo("u1", u) : u \in 0..MaxBytes})]
    /\ step = 0
    /\ attr_set = TRUE
    /\ metrics = NoMetrics
    /\ usage_dict = <<>>
    /\ rgw_usage = None
    /\ rgw_bucket = None
    /\ rgw_users = None
    /\ user_i = 0
    /\ project_quota = 0
    /\ exc = "none"
    /\ active = 0
    /\ resp = <<>>
    /\ prevResp = <<>>
    /\ prevMetrics = NoMetrics
    /\ readerView = "none"

\* project_quota = self._get_quota_by_project(project); if project_quota > 0
QuotaRequest ==
    /\ pc = "quota"
    /\ LET r == RequestData(input.quota)
           q == IF r.exc # "none" THEN [exc |-> r.exc, val |-> 0]
                ELSE GetQuotaByProject(r.val)
       IN
       /\ exc' = q.exc
       /\ project_quota' = q.val
       /\ pc' = IF q.exc = "none" /\ q.val > 0 THEN "quota_info"
                ELSE "quota_done"
    /\ UNCHANGED <<attr_set, metrics, usage_dict, rgw_usage, rgw_bucket,
                   rgw_users, user_i, active, resp, prevResp, prevMetrics,
                   readerView, input, step,
                   requests_version>>

\* user = self._get_user_info(project); if user is not None: add the samples
QuotaInfoRequest ==
    /\ pc = "quota_info"
    /\ LET r == RequestData(input.info) IN
       /\ exc' = r.exc
       /\ metrics' = IF r.exc = "none" /\ r.val # None
                     THEN UserQuotaMetrics(metrics, project_quota, r.val)
                     ELSE metrics
    /\ pc' = "quota_done"
    /\ UNCHANGED <<attr_set, usage_dict, rgw_usage, rgw_bucket, rgw_users,
                   user_i, project_quota, active, resp, prevResp,
                   prevMetrics, readerView, input, step,
                   requests_version>>

NextQuota == QuotaRequest \/ QuotaInfoRequest

SpecQuota == InitQuota /\ [][NextQuota]_vars

\* the limit and the statistics the two responses carry
LimitBytes == input.quota.json.value.max_size

UsedBytes == input.info.json.value.stats.size_actual

ShouldEmit ==
    /\ "json" \in DOMAIN input.quota
    /\ LimitBytes > 0
    /\ "json" \in DOMAIN input.info

EmittedExactlyWhenDue ==
    \A n \in QuotaFamilies : Len(metrics[n]) = IF ShouldEmit THEN 1 ELSE 0

\* C8: a record is emitted exactly for a positive limit with statistics, and
\* utilized_percent is the floor of used * 100 / limit.
C8_PercentIsFloor ==
    pc = "quota_done" =>
        /\ EmittedExactlyWhenDue
        /\ ShouldEmit =>
              metrics["user_quota_utilized"][1].value =
                  [num |-> (UsedBytes * 100) \div LimitBytes, den |-> 1]

====
